---- MODULE Spec2Model ----
(***************************************************************************)
(* Model of the terminal colors library (src/lib/colors/src/lib.rs).       *)
(*                                                                         *)
(* Strings are sequences of byte values.  The process environment is the   *)
(* NO_COLOR entry (absent, or present with a byte-string value) and the    *)
(* kind of file that descriptor 1 (stdout) refers to.  The three public    *)
(* constructors init_auto, init_on and init_off are the operations; each   *)
(* call is recorded with the external state it ran in, the external        *)
(* queries it made and the table it returned.                              *)
(***************************************************************************)
EXTENDS Integers, Sequences, FiniteSets, TLC

(* Longest NO_COLOR value, in bytes, the environment is given. *)
MaxValLen == 2

(* Bytes NO_COLOR values are built from: '1', and 0xC3 0xA9, which is the  *)
(* UTF-8 encoding of U+00E9 when in this order and ill-formed otherwise.   *)
ValueBytes == {49, 195, 169}

(* What file descriptor 1 may refer to: a terminal, a regular file or      *)
(* pipe, or nothing (closed descriptor).                                   *)
StdoutKinds == {"tty", "file", "closed"}

RECURSIVE SeqsUpTo(_)
SeqsUpTo(n) ==
    IF n = 0 THEN {<<>>}
    ELSE LET shorter == SeqsUpTo(n - 1)
         IN shorter \cup {Append(s, b) : s \in {t \in shorter : Len(t) = n - 1},
                                         b \in ValueBytes}

(* The NO_COLOR entry of the environment block. *)
EnvAbsent == [present |-> FALSE, value |-> <<>>]
EnvEntries == {EnvAbsent} \cup {[present |-> TRUE, value |-> v] : v \in SeqsUpTo(MaxValLen)}

VARIABLES stdout, no_color, last, first

vars == <<stdout, no_color, last, first>>

(***************************************************************************)
(* Field names of the structures, in declaration order.                    *)
(***************************************************************************)
Attributes == {"blink", "bold", "italic", "reset", "reverse", "underline"}

Colors == {"black", "blue", "cyan", "green", "magenta", "red", "white", "yellow",
           "bright_black", "bright_blue", "bright_cyan", "bright_green",
           "bright_magenta", "bright_red", "bright_white", "bright_yellow"}

(* String::default(): the empty string. *)
String_default == <<>>

(* #[derive(Default)] on Attributes, Colors and Codes. *)
Attributes_default == [f \in Attributes |-> String_default]

Colors_default == [f \in Colors |-> String_default]

Codes_default == [attr |-> Attributes_default, bg |-> Colors_default, fg |-> Colors_default]

(***************************************************************************)
(* libc::isatty(fd): 1 when fd refers to a terminal; 0 otherwise, both     *)
(* when fd is open on something else (ENOTTY) and when it is not open at   *)
(* all (EBADF).                                                            *)
(***************************************************************************)
isatty_neg_on_error(kind) == IF kind = "tty" THEN 1 ELSE IF kind = "closed" THEN -1 ELSE 0

isatty(kind) == IF kind = "tty" THEN 1 ELSE 0

is_tty(kind) == isatty(kind) # 0

(***************************************************************************)
(* str::from_utf8 as used by env::var on the value of the variable: TRUE   *)
(* iff the bytes from position i on are well-formed UTF-8.                 *)
(***************************************************************************)
IsCont(s, i) == i <= Len(s) /\ s[i] >= 128 /\ s[i] <= 191

InRange(s, i, lo, hi) == i <= Len(s) /\ s[i] >= lo /\ s[i] <= hi

RECURSIVE from_utf8(_, _)
from_utf8(s, i) ==
    IF i > Len(s) THEN TRUE
    ELSE LET b == s[i] IN
         IF b < 128 THEN from_utf8(s, i + 1)
         ELSE IF b >= 194 /\ b <= 223
              THEN IsCont(s, i + 1) /\ from_utf8(s, i + 2)
         ELSE IF b = 224
              THEN InRange(s, i + 1, 160, 191) /\ IsCont(s, i + 2) /\ from_utf8(s, i + 3)
         ELSE IF (b >= 225 /\ b <= 236) \/ b = 238 \/ b = 239
              THEN IsCont(s, i + 1) /\ IsCont(s, i + 2) /\ from_utf8(s, i + 3)
         ELSE IF b = 237
              THEN InRange(s, i + 1, 128, 159) /\ IsCont(s, i + 2) /\ from_utf8(s, i + 3)
         ELSE IF b = 240
              THEN InRange(s, i + 1, 144, 191) /\ IsCont(s, i + 2) /\ IsCont(s, i + 3)
                   /\ from_utf8(s, i + 4)
         ELSE IF b >= 241 /\ b <= 243
              THEN IsCont(s, i + 1) /\ IsCont(s, i + 2) /\ IsCont(s, i + 3)
                   /\ from_utf8(s, i + 4)
         ELSE IF b = 244
              THEN InRange(s, i + 1, 128, 143) /\ IsCont(s, i + 2) /\ IsCont(s, i + 3)
                   /\ from_utf8(s, i + 4)
         ELSE FALSE

(* env::var(key): Ok(value) when the variable is present and its value is  *)
(* valid Unicode, Err(NotPresent) when absent, Err(NotUnicode) otherwise.  *)
env_var(e) ==
    IF ~e.present THEN [ok |-> FALSE, err |-> "NotPresent"]
    ELSE IF from_utf8(e.value, 1) THEN [ok |-> TRUE, err |-> "none"]
    ELSE [ok |-> FALSE, err |-> "NotUnicode"]

(* env::var("NO_COLOR").is_ok() *)
no_color_env(e) == env_var(e).ok

(***************************************************************************)
(* init_on: the table of preset values.  Each value is the literal of the  *)
(* source, byte for byte: 27 is \x1B, 91 is '[', 48..57 are '0'..'9' and   *)
(* 109 is 'm'.                                                             *)
(***************************************************************************)
(* attr_on with italic given the code of "dim" (2) instead of 3. *)
attr_on_wrong_italic ==
    [ reset     |-> <<27, 91, 48, 109>>,
      bold      |-> <<27, 91, 49, 109>>,
      italic    |-> <<27, 91, 50, 109>>,
      underline |-> <<27, 91, 52, 109>>,
      blink     |-> <<27, 91, 53, 109>>,
      reverse   |-> <<27, 91, 55, 109>> ]

attr_on ==
    [ reset     |-> <<27, 91, 48, 109>>,
      bold      |-> <<27, 91, 49, 109>>,
      italic    |-> <<27, 91, 51, 109>>,
      underline |-> <<27, 91, 52, 109>>,
      blink     |-> <<27, 91, 53, 109>>,
      reverse   |-> <<27, 91, 55, 109>> ]

(* bg_on with bright_white left at its default value. *)
bg_on_missing_field ==
    [ black          |-> <<27, 91, 52, 48, 109>>,
      red            |-> <<27, 91, 52, 49, 109>>,
      green          |-> <<27, 91, 52, 50, 109>>,
      yellow         |-> <<27, 91, 52, 51, 109>>,
      blue           |-> <<27, 91, 52, 52, 109>>,
      magenta        |-> <<27, 91, 52, 53, 109>>,
      cyan           |-> <<27, 91, 52, 54, 109>>,
      white          |-> <<27, 91, 52, 55, 109>>,
      bright_black   |-> <<27, 91, 49, 48, 48, 109>>,
      bright_red     |-> <<27, 91, 49, 48, 49, 109>>,
      bright_green   |-> <<27, 91, 49, 48, 50, 109>>,
      bright_yellow  |-> <<27, 91, 49, 48, 51, 109>>,
      bright_blue    |-> <<27, 91, 49, 48, 52, 109>>,
      bright_magenta |-> <<27, 91, 49, 48, 53, 109>>,
      bright_cyan    |-> <<27, 91, 49, 48, 54, 109>>,
      bright_white   |-> <<>> ]

(* bg_on with the final 'm' of bright_black dropped. *)
bg_on_truncated ==
    [ black          |-> <<27, 91, 52, 48, 109>>,
      red            |-> <<27, 91, 52, 49, 109>>,
      green          |-> <<27, 91, 52, 50, 109>>,
      yellow         |-> <<27, 91, 52, 51, 109>>,
      blue           |-> <<27, 91, 52, 52, 109>>,
      magenta        |-> <<27, 91, 52, 53, 109>>,
      cyan           |-> <<27, 91, 52, 54, 109>>,
      white          |-> <<27, 91, 52, 55, 109>>,
      bright_black   |-> <<27, 91, 49, 48, 48>>,
      bright_red     |-> <<27, 91, 49, 48, 49, 109>>,
      bright_green   |-> <<27, 91, 49, 48, 50, 109>>,
      bright_yellow  |-> <<27, 91, 49, 48, 51, 109>>,
      bright_blue    |-> <<27, 91, 49, 48, 52, 109>>,
      bright_magenta |-> <<27, 91, 49, 48, 53, 109>>,
      bright_cyan    |-> <<27, 91, 49, 48, 54, 109>>,
      bright_white   |-> <<27, 91, 49, 48, 55, 109>> ]

bg_on ==
    [ black          |-> <<27, 91, 52, 48, 109>>,
      red            |-> <<27, 91, 52, 49, 109>>,
      green          |-> <<27, 91, 52, 50, 109>>,
      yellow         |-> <<27, 91, 52, 51, 109>>,
      blue           |-> <<27, 91, 52, 52, 109>>,
      magenta        |-> <<27, 91, 52, 53, 109>>,
      cyan           |-> <<27, 91, 52, 54, 109>>,
      white          |-> <<27, 91, 52, 55, 109>>,
      bright_black   |-> <<27, 91, 49, 48, 48, 109>>,
      bright_red     |-> <<27, 91, 49, 48, 49, 109>>,
      bright_green   |-> <<27, 91, 49, 48, 50, 109>>,
      bright_yellow  |-> <<27, 91, 49, 48, 51, 109>>,
      bright_blue    |-> <<27, 91, 49, 48, 52, 109>>,
      bright_magenta |-> <<27, 91, 49, 48, 53, 109>>,
      bright_cyan    |-> <<27, 91, 49, 48, 54, 109>>,
      bright_white   |-> <<27, 91, 49, 48, 55, 109>> ]

(* fg_on with the values of blue and cyan exchanged (the fields' order in  *)
(* the structure is alphabetical, the codes' order is not).                *)
fg_on_swapped ==
    [ black          |-> <<27, 91, 51, 48, 109>>,
      red            |-> <<27, 91, 51, 49, 109>>,
      green          |-> <<27, 91, 51, 50, 109>>,
      yellow         |-> <<27, 91, 51, 51, 109>>,
      blue           |-> <<27, 91, 51, 54, 109>>,
      magenta        |-> <<27, 91, 51, 53, 109>>,
      cyan           |-> <<27, 91, 51, 52, 109>>,
      white          |-> <<27, 91, 51, 55, 109>>,
      bright_black   |-> <<27, 91, 57, 48, 109>>,
      bright_red     |-> <<27, 91, 57, 49, 109>>,
      bright_green   |-> <<27, 91, 57, 50, 109>>,
      bright_yellow  |-> <<27, 91, 57, 51, 109>>,
      bright_blue    |-> <<27, 91, 57, 52, 109>>,
      bright_magenta |-> <<27, 91, 57, 53, 109>>,
      bright_cyan    |-> <<27, 91, 57, 54, 109>>,
      bright_white   |-> <<27, 91, 57, 55, 109>> ]

fg_on ==
    [ black          |-> <<27, 91, 51, 48, 109>>,
      red            |-> <<27, 91, 51, 49, 109>>,
      green          |-> <<27, 91, 51, 50, 109>>,
      yellow         |-> <<27, 91, 51, 51, 109>>,
      blue           |-> <<27, 91, 51, 52, 109>>,
      magenta        |-> <<27, 91, 51, 53, 109>>,
      cyan           |-> <<27, 91, 51, 54, 109>>,
      white          |-> <<27, 91, 51, 55, 109>>,
      bright_black   |-> <<27, 91, 57, 48, 109>>,
      bright_red     |-> <<27, 91, 57, 49, 109>>,
      bright_green   |-> <<27, 91, 57, 50, 109>>,
      bright_yellow  |-> <<27, 91, 57, 51, 109>>,
      bright_blue    |-> <<27, 91, 57, 52, 109>>,
      bright_magenta |-> <<27, 91, 57, 53, 109>>,
      bright_cyan    |-> <<27, 91, 57, 54, 109>>,
      bright_white   |-> <<27, 91, 57, 55, 109>> ]

(* init_on made to look at the environment, as init_auto does. *)
init_on_env_dependent ==
    IF no_color.present THEN Codes_default
    ELSE [attr |-> attr_on, bg |-> bg_on, fg |-> fg_on]

init_on == [attr |-> attr_on, bg |-> bg_on, fg |-> fg_on]

(* init_off that still provides the reset sequence. *)
init_off_keeps_reset ==
    [Codes_default EXCEPT !.attr.reset = <<27, 91, 48, 109>>]

(* init_off: Codes::default(). *)
init_off == Codes_default

(***************************************************************************)
(* init_auto, for stdout of kind fd and NO_COLOR entry e.  The result is   *)
(* the returned table together with the external queries made, in order.   *)
(* `is_tty() && !no_color_env()` evaluates its right operand only when the *)
(* left one is true.                                                       *)
(***************************************************************************)
(* init_auto evaluating both conditions before combining them. *)
init_auto_eager(fd, e) ==
    LET n == no_color_env(e)
        t == is_tty(fd)
    IN [codes |-> IF t /\ ~n THEN init_on ELSE init_off,
        queries |-> <<"getenv", "isatty">>]

init_auto(fd, e) ==
    IF is_tty(fd)
    THEN IF ~no_color_env(e)
         THEN [codes |-> init_on, queries |-> <<"isatty", "getenv">>]
         ELSE [codes |-> init_off, queries |-> <<"isatty", "getenv">>]
    ELSE [codes |-> init_off, queries |-> <<"isatty">>]

(***************************************************************************)
(* State machine.  `last` is the record of the most recent constructor     *)
(* call: which function, what stdout was and whether NO_COLOR was present  *)
(* when it ran, the queries it made and the table it returned.  `first`    *)
(* keeps, for init_on and for init_off, the table returned by the first    *)
(* call of the function and whether stdout was a terminal and NO_COLOR     *)
(* present at that call.                                                   *)
(***************************************************************************)
CallRecord(fn, codes, queries) ==
    [fn |-> fn, stdout |-> stdout, present |-> no_color.present,
     codes |-> codes, queries |-> queries]

NotCalled == [called |-> FALSE, tty |-> FALSE, present |-> FALSE, codes |-> Codes_default]

FirstCall(fn, codes) ==
    IF first[fn].called THEN first
    ELSE [first EXCEPT ![fn] = [called |-> TRUE, tty |-> stdout = "tty",
                                present |-> no_color.present, codes |-> codes]]

Init ==
    /\ stdout \in StdoutKinds
    /\ no_color \in EnvEntries
    /\ last = CallRecord("none", Codes_default, <<>>)
    /\ first = [init_on |-> NotCalled, init_off |-> NotCalled]

CallInitAuto ==
    LET r == init_auto(stdout, no_color) IN
    /\ last' = CallRecord("init_auto", r.codes, r.queries)
    /\ UNCHANGED <<stdout, no_color, first>>

CallInitOn ==
    /\ last' = CallRecord("init_on", init_on, <<>>)
    /\ first' = FirstCall("init_on", init_on)
    /\ UNCHANGED <<stdout, no_color>>

CallInitOff ==
    /\ last' = CallRecord("init_off", init_off, <<>>)
    /\ first' = FirstCall("init_off", init_off)
    /\ UNCHANGED <<stdout, no_color>>

(* The host program or its parent sets, changes or removes NO_COLOR, or    *)
(* redirects or closes stdout, between two calls.                          *)
SetNoColor ==
    /\ \E e \in EnvEntries : e # no_color /\ no_color' = e
    /\ UNCHANGED <<stdout, last, first>>

RedirectStdout ==
    /\ \E k \in StdoutKinds : k # stdout /\ stdout' = k
    /\ UNCHANGED <<no_color, last, first>>

Next ==
    \/ CallInitAuto
    \/ CallInitOn
    \/ CallInitOff
    \/ SetNoColor
    \/ RedirectStdout

Spec == Init /\ [][Next]_vars

(***************************************************************************)
(* Properties.                                                             *)
(***************************************************************************)
(* The color names in the order of their codes, black = 0 .. white = 7. *)
ColorOrder == <<"black", "red", "green", "yellow", "blue", "magenta", "cyan", "white">>

BrightOrder == <<"bright_black", "bright_red", "bright_green", "bright_yellow",
                 "bright_blue", "bright_magenta", "bright_cyan", "bright_white">>

(* All field values of a table, as (structure, field, value) triples. *)
Fields(codes) ==
    {<<g, f, codes[g][f]>> : g \in {"attr"}, f \in DOMAIN codes.attr}
    \cup {<<g, f, codes[g][f]>> : g \in {"bg"}, f \in DOMAIN codes.bg}
    \cup {<<g, f, codes[g][f]>> : g \in {"fg"}, f \in DOMAIN codes.fg}

AllEmpty(codes) == \A x \in Fields(codes) : x[3] = <<>>

AllNonEmpty(codes) == \A x \in Fields(codes) : x[3] # <<>>

IsDigit(b) == b >= 48 /\ b <= 57

(* ESC '[' digit+ 'm' *)
IsSgr(s) ==
    /\ Len(s) >= 4
    /\ s[1] = 27
    /\ s[2] = 91
    /\ s[Len(s)] = 109
    /\ \A i \in 3..(Len(s) - 1) : IsDigit(s[i])

Count(q, x) == Cardinality({i \in 1..Len(q) : q[i] = x})

IsAuto == last.fn = "init_auto"

(* C1: init_auto returns the init_on table iff stdout is a terminal and    *)
(* NO_COLOR is absent, and the init_off table in every other combination.  *)
C1_AutoOnIffTtyAndAbsent ==
    IsAuto =>
        IF last.stdout = "tty" /\ ~last.present
        THEN last.codes = init_on
        ELSE last.codes = init_off

(* C2: whenever NO_COLOR is present, with any value at all, init_auto      *)
(* returns the disabled table, whatever stdout is.                         *)
C2_PresentDisables ==
    (IsAuto /\ last.present) => AllEmpty(last.codes)

(* C3: init_auto always returns a table, and when the terminal query fails *)
(* (closed descriptor) it returns the disabled table whatever NO_COLOR is. *)
C3_QueryErrorDisables ==
    IsAuto =>
        /\ last.codes \in {init_on, init_off}
        /\ last.stdout = "closed" => last.codes = init_off

C3_Witness ==
    /\ IsAuto
    /\ last.stdout = "closed"
    /\ ~last.present
    /\ last.codes = init_off

(* C4: in the table of init_on, for every color index N of 0..7, fg base   *)
(* is ESC[3Nm, fg bright ESC[9Nm, bg base ESC[4Nm and bg bright ESC[10Nm,  *)
(* and these are all 32 color fields.                                      *)
C4_ColorCodes ==
    last.fn = "init_on" =>
        /\ \A n \in 0..7 :
              /\ last.codes.fg[ColorOrder[n + 1]] = <<27, 91, 51, 48 + n, 109>>
              /\ last.codes.fg[BrightOrder[n + 1]] = <<27, 91, 57, 48 + n, 109>>
              /\ last.codes.bg[ColorOrder[n + 1]] = <<27, 91, 52, 48 + n, 109>>
              /\ last.codes.bg[BrightOrder[n + 1]] = <<27, 91, 49, 48, 48 + n, 109>>
        /\ Cardinality(DOMAIN last.codes.fg) = 16
        /\ Cardinality(DOMAIN last.codes.bg) = 16

C4_Witness ==
    /\ last.fn = "init_on"
    /\ last.codes.fg.red = <<27, 91, 51, 49, 109>>
    /\ last.codes.bg.bright_cyan = <<27, 91, 49, 48, 54, 109>>

(* C5: in the table of init_on the six attributes are reset = ESC[0m,      *)
(* bold = ESC[1m, italic = ESC[3m, underline = ESC[4m, blink = ESC[5m and  *)
(* reverse = ESC[7m.                                                       *)
C5_AttributeCodes ==
    last.fn = "init_on" =>
        /\ DOMAIN last.codes.attr = Attributes
        /\ last.codes.attr.reset = <<27, 91, 48, 109>>
        /\ last.codes.attr.bold = <<27, 91, 49, 109>>
        /\ last.codes.attr.italic = <<27, 91, 51, 109>>
        /\ last.codes.attr.underline = <<27, 91, 52, 109>>
        /\ last.codes.attr.blink = <<27, 91, 53, 109>>
        /\ last.codes.attr.reverse = <<27, 91, 55, 109>>

C5_Witness ==
    /\ last.fn = "init_on"
    /\ last.codes.attr.italic = <<27, 91, 51, 109>>
    /\ last.present

(* C6: in the table of init_off each of the 38 fields is the empty string. *)
C6_OffAllEmpty ==
    last.fn = "init_off" =>
        /\ Cardinality(Fields(last.codes)) = 38
        /\ AllEmpty(last.codes)

C6_Witness ==
    /\ last.fn = "init_off"
    /\ last.stdout = "tty"
    /\ ~last.present
    /\ last.codes.attr.reset = <<>>

(* C7: every table returned by a constructor has either all of its 38      *)
(* fields non-empty or all of them empty.                                  *)
C7_AllOrNothing ==
    last.fn # "none" => (AllEmpty(last.codes) \/ AllNonEmpty(last.codes))

C7_Witness ==
    /\ IsAuto
    /\ first.init_on.called
    /\ first.init_off.called
    /\ AllNonEmpty(last.codes)

(* C8: every non-empty field of every returned table is exactly ESC, '[',   *)
(* one or more decimal digits and a final 'm'.                             *)
C8_WellFormedSequences ==
    last.fn # "none" =>
        \A x \in Fields(last.codes) : x[3] # <<>> => IsSgr(x[3])

C8_Witness ==
    /\ IsAuto
    /\ last.codes.bg.bright_black = <<27, 91, 49, 48, 48, 109>>

(* C9: any two calls of init_on return equal tables, and so do any two     *)
(* calls of init_off, whatever stdout and NO_COLOR are at each call and    *)
(* whatever was called in between.                                         *)
C9_OnOffDeterministic ==
    /\ (last.fn = "init_on" /\ first.init_on.called) => last.codes = first.init_on.codes
    /\ (last.fn = "init_off" /\ first.init_off.called) => last.codes = first.init_off.codes

C9_Witness ==
    /\ last.fn = "init_on"
    /\ first.init_on.called
    /\ first.init_on.tty
    /\ ~first.init_on.present
    /\ last.stdout # "tty"
    /\ last.present
    /\ first.init_off.called

(* C10: a call of init_auto queries the terminal first and reads the       *)
(* environment only when stdout is a terminal; it makes each query at most *)
(* once and leaves stdout and the environment as they were.                *)
C10_ShortCircuit ==
    [][(last' # last /\ last'.fn = "init_auto") =>
          /\ Len(last'.queries) >= 1
          /\ last'.queries[1] = "isatty"
          /\ Count(last'.queries, "isatty") <= 1
          /\ Count(last'.queries, "getenv") <= 1
          /\ Count(last'.queries, "getenv") = 1 <=> stdout = "tty"
          /\ stdout' = stdout
          /\ no_color' = no_color]_vars

C10_Witness ==
    /\ IsAuto
    /\ last.stdout = "file"
    /\ last.present
    /\ last.queries = <<"isatty">>

====
